---------------------------- MODULE Spec2Model ----------------------------
(***************************************************************************)
(* Traffic Tracker API (src/main.py): three request handlers over a        *)
(* document store.                                                         *)
(*                                                                         *)
(* Spec     : the handlers served one request at a time; every request is  *)
(*            one action, from the arrival of the request to its response. *)
(* SpecConc : the same handlers cut at their store calls, interleaved.     *)
(*                                                                         *)
(* The modules `database` (db, create_document, get_documents) and         *)
(* `schemas` (TrafficEvent) are imported by main.py and are not part of    *)
(* the sources; they are modelled from the specification's sections 3 and  *)
(* 4.4.                                                                    *)
(*                                                                         *)
(* Python's None is Null. The emoji of the status strings are written in   *)
(* ASCII: "[ok]" for the check mark, "[x]" for the cross, "[!]" for the    *)
(* warning sign.                                                           *)
(***************************************************************************)
EXTENDS Integers, Sequences, FiniteSets, TLC

VARIABLES db,        \* the module-level store handle: "none" (db is None) or "ok"
          coll,      \* the documents of the collection "trafficevent", in insertion order
          req,       \* Spec: the request being served
          resp,      \* Spec: the response to it
          calls,     \* Spec: the store adapter calls made while serving it
          tasks      \* SpecConc: the requests in flight, each with its position and locals

vars == <<db, coll, req, resp, calls, tasks>>

-----------------------------------------------------------------------------
(* Bounds *)

\* documents in the collection when the process starts (besides the empty start)
PreDocs == 50
\* track requests that insert, per run of Spec
MaxNew == 1
\* requests in flight in SpecConc
NTasks == 3

(* Program constants *)

\* get_stats: limit: int = 50
DefaultLimit == 50
\* test_database: db.list_collection_names()[:10]
MaxCollections == 10
\* test_database: str(e)[:80]
MaxErrLen == 80

-----------------------------------------------------------------------------
(* Python values *)

Null == "<None>"

\* bool(s) of an Optional[str]
Truthy(s) == s # Null /\ s # ""

\* x or y
Or(x, y) == IF Truthy(x) THEN x ELSE y

\* s[:n] of a string or a list
Slice(s, n) == IF Len(s) <= n THEN s ELSE SubSeq(s, 1, n)

Digits == <<"0", "1", "2", "3", "4", "5", "6", "7", "8", "9">>

RECURSIVE DecStr(_)
\* str(n) of a natural number
DecStr(n) == IF n < 10 THEN Digits[n + 1] ELSE DecStr(n \div 10) \o Digits[(n % 10) + 1]

\* a store identifier and a timestamp, as the store holds them: ObjectId('7'),
\* datetime(7); a document without timestamps holds None
ObjectId(n) == "ObjectId('" \o DecStr(n) \o "')"
DateTime(n) == "datetime(" \o DecStr(n) \o ")"
NoTime == Null

\* str(ObjectId('7')) = '7': the text between "ObjectId('" and "')"
StrId(id) == SubSeq(id, 11, Len(id) - 2)
\* str(datetime(7)): the time as text
StrTime(t) == "t=" \o SubSeq(t, 10, Len(t) - 1)

\* dict.get(key, default) / headers.get(key, default)
Get(d, key, default) == IF key \in DOMAIN d THEN d[key] ELSE default


-----------------------------------------------------------------------------
(* Inputs *)

\* a key of a JSON body, of a query string or of the headers: not given, or
\* given with a value
NotGiven == <<>>
Given(v) == <<v>>

\* the JSON object, query string or header map that holds the given keys
Mapping(given) == [k \in {f \in DOMAIN given : given[f] # NotGiven} |-> given[k][1]]

\* JSON bodies of POST /api/track: path missing, empty or given; event and
\* source given or omitted
TrackPaths == {NotGiven, Given(""), Given("/x")}
TrackEvents == {NotGiven, Given("click")}
TrackSources == {NotGiven, Given("newsletter")}

TrackBodies ==
    { Mapping([path |-> p, event |-> e, source |-> s]) :
        p \in TrackPaths, e \in TrackEvents, s \in TrackSources }

\* request headers: each of User-Agent and X-Forwarded-For present or not
HeaderCases ==
    { Mapping([f \in {"user-agent", "x-forwarded-for"} |-> IF f = "user-agent" THEN ua ELSE xff]) :
        ua \in {NotGiven, Given("TestAgent/1.0")}, xff \in {NotGiven, Given("10.0.0.1")} }

\* request.client: None, or the peer's address
NoClient == <<>>
ClientCases == {NoClient, <<[host |-> "192.168.0.9"]>>}

\* query strings of GET /api/stats
StatsPaths == {NotGiven, Given(""), Given("/x"), Given("/y")}
StatsEvents == {NotGiven, Given(""), Given("view"), Given("click")}
StatsLimits == {NotGiven, Given(-1), Given(0), Given(1)}

StatsQueries ==
    { Mapping([path |-> p, event |-> e, limit |-> l]) :
        p \in StatsPaths, e \in StatsEvents, l \in StatsLimits }

\* messages of the exceptions the store raises; the second is longer than MaxErrLen
ShortError == "connection refused"
LongError == "ServerSelectionTimeoutError: localhost:27017: [Errno 111] Connection refused, Timeout: 30s"
StoreErrors == {ShortError, LongError}

-----------------------------------------------------------------------------
(* schemas.TrafficEvent and the database module, modelled from the         *)
(* specification (sections 3 and 4.4)                                      *)

\* TrafficEvent(path=, source=, event=, user_agent=, ip=): the event record
TrafficEvent(path, source, event, user_agent, ip) ==
    [path |-> path, source |-> source, event |-> event, user_agent |-> user_agent, ip |-> ip]

\* building the event either gives the record or raises a validation error
TrafficEventOutcomes(path, source, event, user_agent, ip) ==
    { [ok |-> TRUE, evt |-> TrafficEvent(path, source, event, user_agent, ip)],
      [ok |-> FALSE, error |-> "validation error for TrafficEvent"] }

\* the document the store keeps for an event: the event's fields, the identifier
\* the store assigns and its timestamps
Document(c, evt) ==
    [_id |-> ObjectId(Len(c) + 1),
     path |-> evt.path, source |-> evt.source, event |-> evt.event,
     user_agent |-> evt.user_agent, ip |-> evt.ip,
     created_at |-> DateTime(Len(c) + 1), updated_at |-> DateTime(Len(c) + 1)]

\* create_document(collection, evt): one atomic insert, which gives the new
\* identifier as a string, or raises and inserts nothing
create_document(dbh, c, evt) ==
    IF dbh = "none"
    THEN { [ok |-> FALSE, error |-> "Database not available", coll |-> c] }
    ELSE { [ok |-> TRUE, id |-> StrId(Document(c, evt)._id), coll |-> Append(c, Document(c, evt))] }
         \cup { [ok |-> FALSE, error |-> m, coll |-> c] : m \in StoreErrors }

\* a document matches an equality filter when it has every value the filter names
Matches(d, filt) == \A k \in DOMAIN filt : d[k] = filt[k]

Matching(c, filt) == SelectSeq(c, LAMBDA d : Matches(d, filt))

\* find(collection, filter, limit): at most `limit` of the matching documents, in
\* the store's order. The specification states the limit as a maximum count and
\* states no result for a limit below 1; there the model allows what a document
\* store does with such a limit: no bound at all, or |limit| documents.
Find(c, filt, limit) ==
    IF limit >= 1
    THEN { Slice(Matching(c, filt), limit) }
    ELSE { Matching(c, filt), Slice(Matching(c, filt), -limit) }

\* get_documents(collection, filter, limit): the documents found, or raises
get_documents(dbh, c, filt, limit) ==
    IF dbh = "none"
    THEN { [ok |-> FALSE, error |-> "Database not available"] }
    ELSE { [ok |-> TRUE, docs |-> docs] : docs \in Find(c, filt, limit) }
         \cup { [ok |-> FALSE, error |-> m] : m \in StoreErrors }

-----------------------------------------------------------------------------
(* The handlers of main.py *)

\* raise HTTPException(status_code=500, detail=str(e))
Http500(error) == [status |-> 500, body |-> [detail |-> error]]

\* class TrackEventIn: path is required; a body without it never reaches the
\* handler, the framework answers 422
TrackEventInValid(body) == "path" \in DOMAIN body

\* class TrackEventIn: event: str = "view", source: Optional[str] = None
TrackEventIn(body) ==
    [path |-> body["path"], event |-> Get(body, "event", "view"), source |-> Get(body, "source", Null)]

\* ClientIp with a fault: the peer address is preferred to the forwarded one
ClientIpPeerFirst(headers, client) ==
    IF client # NoClient THEN client[1].host ELSE Get(headers, "x-forwarded-for", Null)

\* ip = request.headers.get("x-forwarded-for", request.client.host if request.client else None)
ClientIp(headers, client) ==
    Get(headers, "x-forwarded-for", IF client # NoClient THEN client[1].host ELSE Null)

\* ua = request.headers.get("user-agent")
UserAgent(headers) == Get(headers, "user-agent", Null)

\* the call log entry of create_document("trafficevent", evt)
CreateCall(evt) == [fn |-> "create_document", collection |-> "trafficevent", data |-> evt]

\* TrackOutcomes with a fault: the event is written twice
TrackOutcomesTwice(dbh, c, body, headers, client) ==
    IF "path" \notin DOMAIN body
    THEN { [resp |-> [status |-> 422, body |-> [detail |-> "path: Field required"]],
            coll |-> c, calls |-> <<>>] }
    ELSE LET evt == TrafficEvent(body["path"], Get(body, "source", Null), Get(body, "event", "view"),
                                 Get(headers, "user-agent", Null),
                                 Get(headers, "x-forwarded-for",
                                     IF client # NoClient THEN client[1].host ELSE Null))
         IN  UNION { IF ~r.ok
                     THEN { [resp |-> Http500(r.error), coll |-> r.coll, calls |-> <<CreateCall(evt)>>] }
                     ELSE { [resp |-> IF r2.ok THEN [status |-> 200, body |-> [id |-> r2.id]]
                                               ELSE Http500(r2.error),
                             coll |-> r2.coll,
                             calls |-> <<CreateCall(evt), CreateCall(evt)>>] :
                              r2 \in create_document(dbh, r.coll, evt) } :
                     r \in create_document(dbh, c, evt) }

\* TrackOutcomes with a fault: a failed insert is tried once more
TrackOutcomesRetry(dbh, c, body, headers, client) ==
    IF "path" \notin DOMAIN body
    THEN { [resp |-> [status |-> 422, body |-> [detail |-> "path: Field required"]],
            coll |-> c, calls |-> <<>>] }
    ELSE LET evt == TrafficEvent(body["path"], Get(body, "source", Null), Get(body, "event", "view"),
                                 Get(headers, "user-agent", Null),
                                 Get(headers, "x-forwarded-for",
                                     IF client # NoClient THEN client[1].host ELSE Null))
         IN  UNION { IF r.ok
                     THEN { [resp |-> [status |-> 200, body |-> [id |-> r.id]],
                             coll |-> r.coll, calls |-> <<CreateCall(evt)>>] }
                     ELSE { [resp |-> IF r2.ok THEN [status |-> 200, body |-> [id |-> r2.id]]
                                               ELSE Http500(r2.error),
                             coll |-> r2.coll,
                             calls |-> <<CreateCall(evt), CreateCall(evt)>>] :
                              r2 \in create_document(dbh, r.coll, evt) } :
                     r \in create_document(dbh, c, evt) }

\* track_event(payload, request): what it answers, the collection it leaves and
\* the store calls it makes
TrackOutcomes(dbh, c, body, headers, client) ==
    IF ~TrackEventInValid(body)
    THEN { [resp |-> [status |-> 422, body |-> [detail |-> "path: Field required"]],
            coll |-> c, calls |-> <<>>] }
    ELSE LET payload == TrackEventIn(body)
             ip == ClientIp(headers, client)
             ua == UserAgent(headers)
             built == TrafficEventOutcomes(payload.path, payload.source, payload.event, ua, ip)
         IN  UNION { IF ~b.ok
                     THEN { [resp |-> Http500(b.error), coll |-> c, calls |-> <<>>] }
                     ELSE { [resp |-> IF r.ok THEN [status |-> 200, body |-> [id |-> r.id]]
                                              ELSE Http500(r.error),
                             coll |-> r.coll,
                             calls |-> <<CreateCall(b.evt)>>] :
                              r \in create_document(dbh, c, b.evt) } :
                     b \in built }

\* StatsArgs with a fault: the limit of the query string is not read
StatsArgsDefaultOnly(query) ==
    [path |-> Get(query, "path", Null), event |-> Get(query, "event", Null), limit |-> DefaultLimit]

\* get_stats: path: Optional[str] = None, event: Optional[str] = None, limit: int = 50
StatsArgs(query) ==
    [path |-> Get(query, "path", Null), event |-> Get(query, "event", Null),
     limit |-> Get(query, "limit", DefaultLimit)]

\* Filter with a fault: the event is left out of the filter
FilterPathOnly(path, event) ==
    [k \in {f \in {"path"} : Truthy(path)} |-> path]

\* Filter with a fault: "is not None" in place of the truth test
FilterNotNone(path, event) ==
    LET arg == [path |-> path, event |-> event]
    IN  [k \in {f \in {"path", "event"} : arg[f] # Null} |-> arg[k]]

\* filt = {}; if path: filt["path"] = path; if event: filt["event"] = event
Filter(path, event) ==
    LET arg == [path |-> path, event |-> event]
    IN  [k \in {f \in {"path", "event"} : Truthy(arg[f])} |-> arg[k]]

\* the loop body of get_stats: _id, and created_at and updated_at when set, as strings
Normalize(d) ==
    [d EXCEPT !._id = StrId(d._id),
              !.created_at = IF Truthy(d.created_at) THEN StrTime(d.created_at) ELSE d.created_at,
              !.updated_at = IF Truthy(d.updated_at) THEN StrTime(d.updated_at) ELSE d.updated_at]

\* out = [normalised d for d in docs]
NormalizeAll(docs) == [i \in 1..Len(docs) |-> Normalize(docs[i])]

\* the call log entry of get_documents("trafficevent", filt, limit)
FindCall(filt, limit) ==
    [fn |-> "get_documents", collection |-> "trafficevent", filter |-> filt, limit |-> limit]

\* StatsOutcomes with a fault: the normalisation writes into the stored documents
StatsOutcomesInPlace(dbh, c, query) ==
    LET args == StatsArgs(query)
        filt == Filter(args.path, args.event)
    IN  { [resp |-> IF r.ok THEN [status |-> 200, body |-> [items |-> NormalizeAll(r.docs)]]
                            ELSE Http500(r.error),
           coll |-> IF r.ok
                    THEN [i \in 1..Len(c) |->
                            IF \E j \in 1..Len(r.docs) : r.docs[j] = c[i] THEN Normalize(c[i]) ELSE c[i]]
                    ELSE c,
           calls |-> <<FindCall(filt, args.limit)>>] :
            r \in get_documents(dbh, c, filt, args.limit) }

\* get_stats(path, event, limit)
StatsOutcomes(dbh, c, query) ==
    LET args == StatsArgs(query)
        filt == Filter(args.path, args.event)
    IN  { [resp |-> IF r.ok THEN [status |-> 200, body |-> [items |-> NormalizeAll(r.docs)]]
                            ELSE Http500(r.error),
           coll |-> c,
           calls |-> <<FindCall(filt, args.limit)>>] :
            r \in get_documents(dbh, c, filt, args.limit) }

\* what test_database reads: os.getenv("DATABASE_URL"), getattr(db, 'name', None)
\* and db.list_collection_names(), which gives the names or raises
EnvUrls == {Null, "mongodb://localhost:27017"}
DbNames == {Null, "trafficdb"}
ManyNames == [i \in 1..(MaxCollections + 1) |-> "c" \o DecStr(i)]
Listings == { [ok |-> TRUE, names |-> <<"trafficevent">>], [ok |-> TRUE, names |-> ManyNames] }
                \cup { [ok |-> FALSE, error |-> m] : m \in StoreErrors }

\* Report with a fault: the collection names are not cut to ten
ReportUnsliced(dbh, url, name, listing) ==
    [backend |-> "[ok] Running",
     database |-> IF dbh = "none" THEN "[!] Available but not initialized"
                  ELSE IF listing.ok THEN "[ok] Connected & Working"
                  ELSE "[!] Connected but Error: " \o Slice(listing.error, MaxErrLen),
     database_url |-> IF dbh = "none" THEN Null ELSE IF Truthy(url) THEN "[ok] Set" ELSE "[x] Not Set",
     database_name |-> IF dbh = "none" THEN Null ELSE Or(name, "Unknown"),
     connection_status |-> IF dbh = "none" THEN "Not Connected" ELSE "Connected",
     collections |-> IF dbh # "none" /\ listing.ok THEN listing.names ELSE <<>>]

\* test_database(): the report. Nothing in the outer try block raises besides the
\* listing, which the inner try catches.
Report(dbh, url, name, listing) ==
    IF dbh # "none"
    THEN [backend |-> "[ok] Running",
          database |-> IF listing.ok THEN "[ok] Connected & Working"
                       ELSE "[!] Connected but Error: " \o Slice(listing.error, MaxErrLen),
          database_url |-> IF Truthy(url) THEN "[ok] Set" ELSE "[x] Not Set",
          database_name |-> Or(name, "Unknown"),
          connection_status |-> "Connected",
          collections |-> IF listing.ok THEN Slice(listing.names, MaxCollections) ELSE <<>>]
    ELSE [backend |-> "[ok] Running",
          database |-> "[!] Available but not initialized",
          database_url |-> Null,
          database_name |-> Null,
          connection_status |-> "Not Connected",
          collections |-> <<>>]

-----------------------------------------------------------------------------
(* Spec: one request at a time *)

\* the documents a collection holds when the process starts: none, or PreDocs
\* documents of an earlier run, views of "/x" stored without timestamps
OldDocument(i) ==
    [_id |-> ObjectId(i), path |-> "/x", source |-> Null, event |-> "view",
     user_agent |-> Null, ip |-> Null, created_at |-> NoTime, updated_at |-> NoTime]

InitColls == { <<>>, [i \in 1..PreDocs |-> OldDocument(i)] }

\* the documents inserted since the process started
NewDocs(c) == Cardinality({i \in 1..Len(c) : c[i].created_at # NoTime})

Init ==
    /\ db \in {"none", "ok"}
    /\ coll \in InitColls
    /\ req = [op |-> "none"]
    /\ resp = [status |-> 0]
    /\ calls = <<>>
    /\ tasks = <<>>

\* no request is being served
Idle == req.op = "none"

\* GET /
read_root ==
    /\ Idle
    /\ req' = [op |-> "root"]
    /\ resp' = [status |-> 200, body |-> [message |-> "Traffic Tracker API is running"]]
    /\ calls' = <<>>
    /\ UNCHANGED <<db, coll, tasks>>

\* GET /test
test_database ==
    /\ Idle
    /\ \E url \in EnvUrls, name \in DbNames, listing \in Listings :
        /\ req' = [op |-> "test", url |-> url, name |-> name, listing |-> listing]
        /\ resp' = [status |-> 200, body |-> Report(db, url, name, listing)]
        /\ calls' = <<>>
        /\ UNCHANGED <<db, coll, tasks>>

\* POST /api/track
track_event ==
    /\ Idle
    /\ NewDocs(coll) < MaxNew
    /\ \E body \in TrackBodies, headers \in HeaderCases, client \in ClientCases :
         \E o \in TrackOutcomes(db, coll, body, headers, client) :
            /\ req' = [op |-> "track", body |-> body, headers |-> headers, client |-> client]
            /\ resp' = o.resp
            /\ coll' = o.coll
            /\ calls' = o.calls
            /\ UNCHANGED <<db, tasks>>

\* GET /api/stats
get_stats ==
    /\ Idle
    /\ \E query \in StatsQueries :
        \E o \in StatsOutcomes(db, coll, query) :
            /\ req' = [op |-> "stats", query |-> query]
            /\ resp' = o.resp
            /\ coll' = o.coll
            /\ calls' = o.calls
            /\ UNCHANGED <<db, tasks>>

\* the response has been sent: the handlers keep nothing of a request
Reply ==
    /\ ~Idle
    /\ req' = [op |-> "none"]
    /\ resp' = [status |-> 0]
    /\ calls' = <<>>
    /\ UNCHANGED <<db, coll, tasks>>

Next == read_root \/ test_database \/ track_event \/ get_stats \/ Reply

Spec == Init /\ [][Next]_vars

-----------------------------------------------------------------------------
(* Properties of Spec *)

\* a track request has just been answered with an identifier
TrackSucceeded == req.op = "track" /\ resp.status = 200

\* the step is a track request answered with an identifier
TrackSucceeds == Idle /\ req'.op = "track" /\ resp'.status = 200

\* the items which listEvents(path = p), get_stats with that path and the
\* default limit, returns on collection c
ListEvents(c, p) ==
    (CHOOSE o \in StatsOutcomes("ok", c, [path |-> p]) : o.resp.status = 200).resp.body.items

IsPrefix(s, t) == Len(s) <= Len(t) /\ SubSeq(t, 1, Len(s)) = s

\* C1, as claimed: a successful track of a non-empty path returns a non-empty
\* identifier, inserts exactly one document, and listEvents(path = path) returns
\* exactly one more record right after it than right before it.
C1_OneMoreAlways ==
    [][ (TrackSucceeds /\ req'.body["path"] # "") =>
            /\ resp'.body.id # ""
            /\ Len(coll') = Len(coll) + 1
            /\ Len(ListEvents(coll', req'.body["path"]))
                 = Len(ListEvents(coll, req'.body["path"])) + 1 ]_vars

\* C1, amended: a successful track of a non-empty path returns a non-empty
\* identifier and inserts exactly one document; listEvents(path = path) returns
\* exactly one more record after it than before it when it returned fewer than
\* the default limit of 50 before, and 50 records again otherwise.
C1_OneMoreBelowLimit ==
    [][ (TrackSucceeds /\ req'.body["path"] # "") =>
            LET before == Len(ListEvents(coll, req'.body["path"]))
                after == Len(ListEvents(coll', req'.body["path"]))
            IN  /\ resp'.body.id # ""
                /\ Len(coll') = Len(coll) + 1
                /\ SubSeq(coll', 1, Len(coll)) = coll
                /\ IF before < DefaultLimit THEN after = before + 1
                                            ELSE after = DefaultLimit ]_vars

\* C1, witness: "/x" was tracked into a collection where nothing matched it, and
\* listEvents(path = "/x") now returns one record
C1_Witness ==
    /\ TrackSucceeded
    /\ req.body["path"] = "/x"
    /\ Len(coll) = 1
    /\ Len(ListEvents(coll, "/x")) = 1
    /\ Len(ListEvents(SubSeq(coll, 1, 0), "/x")) = 0

\* C2, as claimed: a track request whose path is missing or empty is answered with
\* a 4xx status and reaches no insert, and every stored document has a present,
\* non-empty path.
C2_EmptyPathRejected ==
    /\ (req.op = "track" /\ ("path" \notin DOMAIN req.body \/ req.body["path"] = ""))
          => (resp.status \in 400..499 /\ calls = <<>>)
    /\ \A i \in 1..Len(coll) : coll[i].path \notin {Null, ""}

\* a stats request has just been answered with items
StatsAnswered == req.op = "stats" /\ resp.status = 200

\* C3, as claimed: every record get_stats(path = p, event = e) returns for given
\* (non-null) p and e has path = p and event = e.
C3_MatchesGivenArgs ==
    (StatsAnswered /\ "path" \in DOMAIN req.query /\ "event" \in DOMAIN req.query) =>
        \A i \in 1..Len(resp.body.items) :
            /\ resp.body.items[i].path = req.query["path"]
            /\ resp.body.items[i].event = req.query["event"]

\* C3, amended: every record get_stats(path = p, event = e) returns for given,
\* non-empty p and e has path = p and event = e.
C3_MatchesNonEmptyArgs ==
    (/\ StatsAnswered
     /\ "path" \in DOMAIN req.query /\ "event" \in DOMAIN req.query
     /\ req.query["path"] # "" /\ req.query["event"] # "") =>
        \A i \in 1..Len(resp.body.items) :
            /\ resp.body.items[i].path = req.query["path"]
            /\ resp.body.items[i].event = req.query["event"]

\* C3, witness: get_stats(path = "/x", event = "view") returned records while the
\* collection holds a "/x" document of another event
C3_Witness ==
    /\ StatsAnswered
    /\ "path" \in DOMAIN req.query /\ "event" \in DOMAIN req.query
    /\ req.query["path"] = "/x" /\ req.query["event"] = "view"
    /\ Len(resp.body.items) >= 1
    /\ \E j \in 1..Len(coll) : coll[j].path = "/x" /\ coll[j].event = "click"

\* C4, as claimed: the filter get_stats passes to the store has the key "path"
\* exactly when path is given and "event" exactly when event is given, an empty
\* string included, with the given values, and no other key.
C4_FilterKeysWhenGiven ==
    req.op = "stats" =>
        /\ Len(calls) = 1
        /\ calls[1].fn = "get_documents"
        /\ DOMAIN calls[1].filter \subseteq {"path", "event"}
        /\ \A k \in {"path", "event"} :
              /\ k \in DOMAIN calls[1].filter <=> k \in DOMAIN req.query
              /\ k \in DOMAIN calls[1].filter => calls[1].filter[k] = req.query[k]

\* C4, amended: the filter has the key "path" exactly when path is given and not
\* the empty string, "event" exactly when event is given and not the empty string,
\* each with the given value, and no other key.
C4_FilterKeysWhenNonEmpty ==
    req.op = "stats" =>
        /\ Len(calls) = 1
        /\ calls[1].fn = "get_documents"
        /\ DOMAIN calls[1].filter \subseteq {"path", "event"}
        /\ \A k \in {"path", "event"} :
              /\ k \in DOMAIN calls[1].filter <=> (k \in DOMAIN req.query /\ req.query[k] # "")
              /\ k \in DOMAIN calls[1].filter => calls[1].filter[k] = req.query[k]

\* C4, witness: get_stats(path = "", event = "view") filtered on the event alone
C4_Witness ==
    /\ req.op = "stats"
    /\ "path" \in DOMAIN req.query /\ "event" \in DOMAIN req.query
    /\ req.query["path"] = "" /\ req.query["event"] = "view"
    /\ DOMAIN calls[1].filter = {"event"}

ReportFields ==
    {"backend", "database", "database_url", "database_name", "connection_status", "collections"}

ListingErrorPrefix == "[!] Connected but Error: "

\* C5: whatever the store's state, test_database answers 200 with a report of the
\* six fields and at most 10 collection names; when the listing raises, the fault
\* shows as text in the field database alone: the connection is still reported,
\* the collections are empty.
C5_ReportWellFormed ==
    req.op = "test" =>
        /\ resp.status = 200
        /\ DOMAIN resp.body = ReportFields
        /\ Len(resp.body.collections) <= MaxCollections
        /\ (db = "none") => /\ resp.body.connection_status = "Not Connected"
                            /\ resp.body.collections = <<>>
        /\ (db # "none" /\ ~req.listing.ok) =>
              /\ resp.body.backend = "[ok] Running"
              /\ resp.body.connection_status = "Connected"
              /\ resp.body.collections = <<>>
              /\ Len(resp.body.database) <= Len(ListingErrorPrefix) + MaxErrLen
              /\ SubSeq(resp.body.database, 1, Len(ListingErrorPrefix)) = ListingErrorPrefix
              /\ IsPrefix(SubSeq(resp.body.database, Len(ListingErrorPrefix) + 1, Len(resp.body.database)),
                          req.listing.error)

\* C5, witness: the store listed more than ten collections and the report holds ten
C5_Witness ==
    /\ req.op = "test"
    /\ db = "ok"
    /\ req.listing.ok
    /\ Len(req.listing.names) > MaxCollections
    /\ Len(resp.body.collections) = MaxCollections

\* the step is a track request that reached the handler and failed
TrackFails == Idle /\ req'.op = "track" /\ resp'.status = 500

\* C6: when building the event or the insert fails, track_event answers 500 with
\* the failure's message as detail, has called the store's insert at most once, and
\* leaves the collection as it was.
C6_FailureLeavesStore ==
    [][ TrackFails =>
          /\ coll' = coll
          /\ DOMAIN resp'.body = {"detail"}
          /\ Len(calls') <= 1
          /\ (calls' = <<>>) => resp'.body.detail = "validation error for TrafficEvent"
          /\ (calls' # <<>> /\ db = "none") => resp'.body.detail = "Database not available"
          /\ (calls' # <<>> /\ db # "none") => resp'.body.detail \in StoreErrors ]_vars

\* C6, witness: an insert into a collection with documents failed and was answered 500
C6_Witness ==
    /\ req.op = "track"
    /\ resp.status = 500
    /\ db = "ok"
    /\ Len(calls) = 1
    /\ calls[1].fn = "create_document"
    /\ resp.body.detail = LongError
    /\ Len(coll) = PreDocs

\* C7: the collection is an append-only log: a step changes it only by appending
\* one document, and only a track request answered with an identifier does; stats,
\* diagnostics and root requests leave it as it was.
C7_AppendOnly ==
    [][ /\ Len(coll) <= Len(coll')
        /\ \A i \in 1..Len(coll) : coll'[i] = coll[i]
        /\ (coll' # coll) =>
              /\ Idle /\ req'.op = "track" /\ resp'.status = 200
              /\ Len(coll') = Len(coll) + 1
        /\ (req'.op \in {"stats", "test", "root", "none"}) => coll' = coll
        /\ db' = db ]_vars

\* C7, witness: get_stats returned a document inserted in this run, its _id and
\* timestamps as strings, while the stored document holds them as the store does
C7_Witness ==
    /\ StatsAnswered
    /\ Len(coll) = 1
    /\ Len(resp.body.items) = 1
    /\ coll[1]._id = ObjectId(1)
    /\ coll[1].created_at = DateTime(1)
    /\ resp.body.items[1]._id = "1"
    /\ resp.body.items[1].created_at = "t=1"

\* the limit of a stats request: the one given, 50 when omitted
GivenLimit == IF "limit" \in DOMAIN req.query THEN req.query["limit"] ELSE DefaultLimit

\* C8, as claimed: get_stats returns at most limit items (50 when limit is omitted),
\* for every integer limit the endpoint accepts.
C8_AtMostLimit ==
    StatsAnswered => Len(resp.body.items) <= GivenLimit

\* C8, amended: get_stats returns at most limit items (50 when limit is omitted),
\* for every limit of at least 1.
C8_AtMostPositiveLimit ==
    (StatsAnswered /\ GivenLimit >= 1) => Len(resp.body.items) <= GivenLimit

\* C8, witness: get_stats(limit = 1) returned one item of the several that match
C8_Witness ==
    /\ StatsAnswered
    /\ "limit" \in DOMAIN req.query
    /\ req.query["limit"] = 1
    /\ Len(resp.body.items) = 1
    /\ Len(Matching(coll, calls[1].filter)) >= 2

\* C9: the document a successful track_event stores has user_agent = the User-Agent
\* header or null without it; ip = the X-Forwarded-For header when present, else
\* the peer address when the request has a client, else null; path as given, event
\* as given or "view", source as given or null; and the identifier answered is the
\* stored document's.
C9_StoredRecord ==
    TrackSucceeded =>
        LET d == coll[Len(coll)]
            h == req.headers
            b == req.body
        IN  /\ Len(coll) >= 1
            /\ d.user_agent = (IF "user-agent" \in DOMAIN h THEN h["user-agent"] ELSE Null)
            /\ ("x-forwarded-for" \in DOMAIN h) => d.ip = h["x-forwarded-for"]
            /\ ("x-forwarded-for" \notin DOMAIN h /\ req.client # NoClient) => d.ip = req.client[1].host
            /\ ("x-forwarded-for" \notin DOMAIN h /\ req.client = NoClient) => d.ip = Null
            /\ d.path = b["path"]
            /\ d.event = (IF "event" \in DOMAIN b THEN b["event"] ELSE "view")
            /\ d.source = (IF "source" \in DOMAIN b THEN b["source"] ELSE Null)
            /\ d._id = "ObjectId('" \o resp.body.id \o "')"

\* C9, witness: a request with X-Forwarded-For, from a client with a peer address,
\* without event and source, was stored with the forwarded address
C9_Witness ==
    /\ TrackSucceeded
    /\ "x-forwarded-for" \in DOMAIN req.headers
    /\ req.client # NoClient
    /\ DOMAIN req.body = {"path"}
    /\ coll[Len(coll)].ip = "10.0.0.1"
    /\ coll[Len(coll)].user_agent = "TestAgent/1.0"
    /\ coll[Len(coll)].event = "view"
    /\ coll[Len(coll)].source = Null

-----------------------------------------------------------------------------
(* SpecConc: requests in flight together. A handler is cut where it calls  *)
(* the store: the server may run other requests (other workers, other      *)
(* threads of the store's client) between its steps. The store's insert    *)
(* and find are one step each.                                             *)

Tasks == 1..NTasks

\* the requests in flight: track requests of two paths, stats requests with and
\* without a path
ConcRequests ==
    { [kind |-> "track", pc |-> "start", body |-> [path |-> p], headers |-> h, client |-> NoClient,
       loc |-> <<>>, resp |-> [status |-> 0]] :
         p \in {"/x", "/y"}, h \in {Mapping([f \in {"x-forwarded-for"} |-> Given("10.0.0.1")])} }
    \cup
    { [kind |-> "stats", pc |-> "start", query |-> q, loc |-> <<>>, resp |-> [status |-> 0]] :
         q \in {Mapping([path |-> NotGiven]), Mapping([path |-> Given("/x")])} }

InitCollsConc == { <<>>, <<OldDocument(1)>> }

InitConc ==
    /\ db = "ok"
    /\ coll \in InitCollsConc
    /\ tasks \in [Tasks -> ConcRequests]
    /\ req = [op |-> "none"]
    /\ resp = [status |-> 0]
    /\ calls = <<>>

At(t, kind, pc) == tasks[t].kind = kind /\ tasks[t].pc = pc

Finish(t, response) == [tasks EXCEPT ![t].pc = "done", ![t].resp = response]

\* track_event, to the call of create_document: ip, ua and evt are set, or
\* building the event raises
TrackBuild(t) ==
    /\ At(t, "track", "start")
    /\ LET payload == TrackEventIn(tasks[t].body)
           ip == ClientIp(tasks[t].headers, tasks[t].client)
           ua == UserAgent(tasks[t].headers)
       IN  \E b \in TrafficEventOutcomes(payload.path, payload.source, payload.event, ua, ip) :
              tasks' = IF b.ok THEN [tasks EXCEPT ![t].pc = "insert", ![t].loc = [evt |-> b.evt]]
                               ELSE Finish(t, Http500(b.error))
    /\ UNCHANGED <<db, coll, req, resp, calls>>

\* TrackInsert with a fault: the event is inserted twice
TrackInsertTwice(t) ==
    /\ At(t, "track", "insert")
    /\ \E r \in create_document(db, coll, tasks[t].loc.evt) :
          IF r.ok
          THEN \E r2 \in create_document(db, r.coll, tasks[t].loc.evt) :
                  /\ coll' = r2.coll
                  /\ tasks' = [tasks EXCEPT ![t].pc = "return",
                                            ![t].loc = [evt |-> tasks[t].loc.evt, id |-> r.id]]
          ELSE /\ coll' = r.coll
               /\ tasks' = Finish(t, Http500(r.error))
    /\ UNCHANGED <<db, req, resp, calls>>

\* inserted_id = create_document("trafficevent", evt): the insert, or it raises
TrackInsert(t) ==
    /\ At(t, "track", "insert")
    /\ \E r \in create_document(db, coll, tasks[t].loc.evt) :
          /\ coll' = r.coll
          /\ tasks' = IF r.ok THEN [tasks EXCEPT ![t].pc = "return",
                                                 ![t].loc = [evt |-> tasks[t].loc.evt, id |-> r.id]]
                              ELSE Finish(t, Http500(r.error))
    /\ UNCHANGED <<db, req, resp, calls>>

\* return {"id": inserted_id}
TrackReturn(t) ==
    /\ At(t, "track", "return")
    /\ tasks' = Finish(t, [status |-> 200, body |-> [id |-> tasks[t].loc.id]])
    /\ UNCHANGED <<db, coll, req, resp, calls>>

\* get_stats, to the call of get_documents: filt is built
StatsFilter(t) ==
    /\ At(t, "stats", "start")
    /\ LET args == StatsArgs(tasks[t].query)
       IN  tasks' = [tasks EXCEPT ![t].pc = "find",
                                  ![t].loc = [filt |-> Filter(args.path, args.event), limit |-> args.limit]]
    /\ UNCHANGED <<db, coll, req, resp, calls>>

\* docs = get_documents("trafficevent", filt, limit): the find, or it raises;
\* seen is the size of the collection when the find ran
StatsFind(t) ==
    /\ At(t, "stats", "find")
    /\ \E r \in get_documents(db, coll, tasks[t].loc.filt, tasks[t].loc.limit) :
          tasks' = IF r.ok THEN [tasks EXCEPT ![t].pc = "return",
                                              ![t].loc = [docs |-> r.docs, seen |-> Len(coll)]]
                           ELSE Finish(t, Http500(r.error))
    /\ UNCHANGED <<db, coll, req, resp, calls>>

\* the loop over docs and return {"items": out}
StatsReturn(t) ==
    /\ At(t, "stats", "return")
    /\ tasks' = [tasks EXCEPT ![t].pc = "done",
                              ![t].resp = [status |-> 200,
                                           body |-> [items |-> NormalizeAll(tasks[t].loc.docs)]]]
    /\ UNCHANGED <<db, coll, req, resp, calls>>

NextConc ==
    \E t \in Tasks :
        \/ TrackBuild(t)
        \/ TrackInsert(t)
        \/ TrackReturn(t)
        \/ StatsFilter(t)
        \/ StatsFind(t)
        \/ StatsReturn(t)

SpecConc == InitConc /\ [][NextConc]_vars

-----------------------------------------------------------------------------
(* Properties of SpecConc *)

\* the track requests whose insert has returned an identifier
Inserted == {t \in Tasks : tasks[t].kind = "track" /\ tasks[t].pc \in {"return", "done"}
                              /\ "id" \in DOMAIN tasks[t].loc}

\* the stats requests whose find has returned documents
Found == {t \in Tasks : tasks[t].kind = "stats" /\ tasks[t].pc \in {"return", "done"}
                           /\ "docs" \in DOMAIN tasks[t].loc}

AllDone == \A t \in Tasks : tasks[t].pc = "done"

\* C10: under every interleaving no insert is lost or duplicated: the collection
\* holds its initial documents and then exactly one document per track request
\* whose insert succeeded, with that request's event; the identifiers returned
\* are pairwise distinct; a request answered 200 with an identifier is one of
\* them; and a stats response holds, normalised, only documents that were in the
\* collection when its find ran.
C10_NoLostOrDuplicateInsert ==
    /\ NewDocs(coll) = Cardinality(Inserted)
    /\ \A i \in 1..(Len(coll) - NewDocs(coll)) : coll[i] = OldDocument(i)
    /\ \A t \in Inserted :
          /\ Cardinality({i \in 1..Len(coll) : StrId(coll[i]._id) = tasks[t].loc.id}) = 1
          /\ \E i \in 1..Len(coll) :
                /\ StrId(coll[i]._id) = tasks[t].loc.id
                /\ \A f \in DOMAIN tasks[t].loc.evt : coll[i][f] = tasks[t].loc.evt[f]
                /\ coll[i].path = tasks[t].body["path"]
    /\ \A t, u \in Inserted : t # u => tasks[t].loc.id # tasks[u].loc.id
    /\ \A t \in Tasks :
          (tasks[t].kind = "track" /\ tasks[t].resp.status = 200) =>
              (t \in Inserted /\ tasks[t].resp.body.id = tasks[t].loc.id)
    /\ \A t \in Found :
          /\ tasks[t].loc.seen <= Len(coll)
          /\ \A j \in 1..Len(tasks[t].loc.docs) :
                \E i \in 1..tasks[t].loc.seen : tasks[t].loc.docs[j] = coll[i]
          /\ tasks[t].pc = "done" =>
                /\ tasks[t].resp.status = 200
                /\ tasks[t].resp.body.items = NormalizeAll(tasks[t].loc.docs)

\* C10, witness: all requests are answered; two track requests inserted, and a
\* stats request ran its find between the two inserts and returned the first
\* document without the second
C10_Witness ==
    /\ AllDone
    /\ Cardinality(Inserted) = 2
    /\ \E t \in Found :
          /\ tasks[t].loc.seen = Len(coll) - 1
          /\ Len(tasks[t].resp.body.items) >= 1
          /\ tasks[t].loc.docs[Len(tasks[t].loc.docs)] = coll[Len(coll) - 1]

=============================================================================
